---- MODULE Spec2Model ----
(***************************************************************************)
(* Event dispatch of neovim-gtk: src/nvim/redraw_handler.rs.               *)
(*                                                                         *)
(*   call             redraw dispatcher (one call of a notification batch) *)
(*   call_gui_event   command dispatcher (Font, Clipboard, Option)         *)
(*   call_gui_request request dispatcher (Clipboard Get)                   *)
(*                                                                         *)
(* Wire values are rmpv values.  A Rust panic (index out of bounds,        *)
(* unwrap of None, a second mutable borrow of a RefCell) is the result     *)
(* kind "Panic": it is neither Ok nor Err and it ends the process.         *)
(***************************************************************************)
EXTENDS Integers, Sequences, FiniteSets, TLC

(***************************************************************************)
(* Wire values.  One record shape for every tag, so that any two values    *)
(* can be compared:                                                        *)
(*   i      payload of an Integer                                          *)
(*   s      payload of a String                                            *)
(*   b      payload of a Boolean; for a String, "the bytes are valid       *)
(*          UTF-8"                                                         *)
(*   items  elements of an Array; for a Map the pairs flattened            *)
(*          k1, v1, k2, v2, ... in wire order                              *)
(***************************************************************************)
Value(tag, i, s, b, items) ==
    [tag |-> tag, i |-> i, s |-> s, b |-> b, items |-> items]

Nil == Value("Nil", 0, "", FALSE, <<>>)

Boolean(x) == Value("Boolean", 0, "", x, <<>>)

Integer(n) == Value("Integer", n, "", FALSE, <<>>)

String(s) == Value("String", 0, s, TRUE, <<>>)

\* a String whose bytes are not valid UTF-8
BadString == Value("String", 0, "", FALSE, <<>>)

Array(items) == Value("Array", 0, "", FALSE, items)

Map(kv) == Value("Map", 0, "", FALSE, kv)

(***************************************************************************)
(* Option / Result.                                                        *)
(***************************************************************************)
Ok(v) == [kind |-> "Ok", val |-> v, err |-> ""]

Err(msg) == [kind |-> "Err", val |-> Nil, err |-> msg]

\* a panic unwinding out of the expression
Panic(msg) == [kind |-> "Panic", val |-> Nil, err |-> msg]

Min(S) == CHOOSE x \in S : \A y \in S : x <= y

Max(S) == CHOOSE x \in S : \A y \in S : x >= y

\* a coerced (typed) parameter: the payload under its Rust type
Typed(ty, v) == [v EXCEPT !.tag = ty]

(***************************************************************************)
(* Scalar coercions: try_str!, try_int!, try_uint!, try_bool!.             *)
(***************************************************************************)
try_str(v) ==
    IF v.tag = "String" /\ v.b
    THEN Ok(Typed("str", v))
    ELSE Err("Can't convert argument to string")

try_int(v) ==
    IF v.tag = "Integer"
    THEN Ok(Typed("i64", v))
    ELSE Err("Can't convert argument to int")

try_uint(v) ==
    IF v.tag = "Integer" /\ v.i >= 0
    THEN Ok(Typed("u64", v))
    ELSE Err("Can't convert argument to u64")

try_bool(v) ==
    IF v.tag = "Boolean"
    THEN Ok(Typed("bool", v))
    ELSE Err("Can't convert argument to bool")

(***************************************************************************)
(* Structural decoding, rmpv::ext::from_value, into the parameter type of  *)
(* the sink operation:                                                     *)
(*   attrs    HashMap<String, Value>          (on_highlight_set)           *)
(*   content  Vec<(HashMap<String, Value>, String)>                        *)
(*                               (cmdline_show, cmdline_block_append)      *)
(*   block    Vec<Vec<(HashMap<String, Value>, String)>>                   *)
(*                               (cmdline_block_show)                      *)
(***************************************************************************)
Keys(kv) == { i \in 1..Len(kv) : i % 2 = 1 }

IsAttrs(v) ==
    /\ v.tag = "Map"
    /\ \A i \in Keys(v.items) : v.items[i].tag = "String" /\ v.items[i].b

IsCell(v) ==
    /\ v.tag = "Array"
    /\ Len(v.items) = 2
    /\ IsAttrs(v.items[1])
    /\ v.items[2].tag = "String" /\ v.items[2].b

IsContent(v) ==
    /\ v.tag = "Array"
    /\ \A i \in 1..Len(v.items) : IsCell(v.items[i])

IsBlock(v) ==
    /\ v.tag = "Array"
    /\ \A i \in 1..Len(v.items) : IsContent(v.items[i])

\* HashMap: of two pairs with the same key the later one wins
LastWins(kv) ==
    LET keep == { i \in Keys(kv) :
                    \A j \in Keys(kv) : j > i => kv[j].s # kv[i].s }
        F[n \in 0..(Len(kv) \div 2)] ==
            IF n = 0 THEN <<>>
            ELSE IF (2 * n - 1) \in keep
                 THEN F[n - 1] \o <<kv[2 * n - 1], kv[2 * n]>>
                 ELSE F[n - 1]
    IN  F[Len(kv) \div 2]

DecodeAttrs(v) == Value("HashMap", 0, "", FALSE, LastWins(v.items))

DecodeCell(v) ==
    Value("Tuple", 0, "", FALSE,
          <<DecodeAttrs(v.items[1]), Typed("str", v.items[2])>>)

DecodeContent(v) ==
    Value("Vec", 0, "", FALSE,
          [i \in 1..Len(v.items) |-> DecodeCell(v.items[i])])

DecodeBlock(v) ==
    Value("Vec", 0, "", FALSE,
          [i \in 1..Len(v.items) |-> DecodeContent(v.items[i])])

from_value(v, shape) ==
    CASE shape = "attrs" ->
            IF IsAttrs(v) THEN Ok(DecodeAttrs(v)) ELSE Err("invalid type")
      [] shape = "content" ->
            IF IsContent(v) THEN Ok(DecodeContent(v)) ELSE Err("invalid type")
      [] shape = "block" ->
            IF IsBlock(v) THEN Ok(DecodeBlock(v)) ELSE Err("invalid type")

(***************************************************************************)
(* try_arg!: one positional value against the kind the call site names.    *)
(* The kind ext carries the shape of the destination parameter.            *)
(***************************************************************************)
try_arg(v, kind) ==
    CASE kind = "bool" -> try_bool(v)
      [] kind = "uint" -> try_uint(v)
      [] kind = "int" -> try_int(v)
      [] kind = "str" ->
            IF v.tag = "String"
            THEN IF v.b THEN Ok(Typed("String", v))
                 ELSE Err("Can't convert to utf8 string")
            ELSE Err("Can't convert to string")
      [] OTHER -> from_value(v, kind)

(***************************************************************************)
(* RepaintMode, the repaint outcome of one call, ordered by severity:      *)
(* Nothing < Cursor{row,col} < Area{top,bot,left,right} < Full.            *)
(***************************************************************************)
RepaintMode(tag, row, col, top, bot, left, right) ==
    [tag |-> tag, row |-> row, col |-> col,
     top |-> top, bot |-> bot, left |-> left, right |-> right]

Nothing == RepaintMode("Nothing", 0, 0, 0, 0, 0, 0)

Cursor(row, col) == RepaintMode("Cursor", row, col, 0, 0, 0, 0)

Area(top, bot, left, right) == RepaintMode("Area", 0, 0, top, bot, left, right)

Full == RepaintMode("Full", 0, 0, 0, 0, 0, 0)

MinOf(a, b) == IF a <= b THEN a ELSE b

MaxOf(a, b) == IF a >= b THEN a ELSE b

\* the rule with two areas combined to the later one instead of their bounds
join_area_keeps_later(a, b) ==
    CASE a.tag = "Full" \/ b.tag = "Full" -> Full
      [] a.tag # "Full" /\ b.tag = "Area" -> b
      [] a.tag = "Area" /\ b.tag \in {"Nothing", "Cursor"} -> a
      [] a.tag = "Cursor" /\ b.tag = "Cursor" -> b
      [] a.tag = "Cursor" /\ b.tag = "Nothing" -> a
      [] a.tag = "Nothing" /\ b.tag \in {"Nothing", "Cursor"} -> b

\* the rule with two cursors combined to the earlier one
join_cursor_keeps_first(a, b) ==
    CASE a.tag = "Full" \/ b.tag = "Full" -> Full
      [] a.tag = "Area" /\ b.tag = "Area" ->
            Area(MinOf(a.top, b.top), MaxOf(a.bot, b.bot),
                 MinOf(a.left, b.left), MaxOf(a.right, b.right))
      [] a.tag = "Area" /\ b.tag \in {"Nothing", "Cursor"} -> a
      [] b.tag = "Area" /\ a.tag \in {"Nothing", "Cursor"} -> b
      [] a.tag = "Cursor" /\ b.tag \in {"Nothing", "Cursor"} -> a
      [] a.tag = "Nothing" /\ b.tag \in {"Nothing", "Cursor"} -> b

\* the pairwise combination rule; b is the later outcome
join(a, b) ==
    CASE a.tag = "Full" \/ b.tag = "Full" -> Full
      [] a.tag = "Area" /\ b.tag = "Area" ->
            Area(MinOf(a.top, b.top), MaxOf(a.bot, b.bot),
                 MinOf(a.left, b.left), MaxOf(a.right, b.right))
      [] a.tag = "Area" /\ b.tag \in {"Nothing", "Cursor"} -> a
      [] b.tag = "Area" /\ a.tag \in {"Nothing", "Cursor"} -> b
      [] a.tag = "Cursor" /\ b.tag = "Cursor" -> b
      [] a.tag = "Cursor" /\ b.tag = "Nothing" -> a
      [] a.tag = "Nothing" /\ b.tag \in {"Nothing", "Cursor"} -> b

\* fold of a batch's outcomes, in append order, from the identity
RECURSIVE fold(_)
fold(outcomes) ==
    IF outcomes = <<>> THEN Nothing
    ELSE join(fold(SubSeq(outcomes, 1, Len(outcomes) - 1)),
              outcomes[Len(outcomes)])

(***************************************************************************)
(* The result of one dispatch: what came back (Ok with the repaint mode,   *)
(* Err with the message, or a panic) and the operations of the sink it     *)
(* invoked, in order.                                                      *)
(***************************************************************************)
Ret(kind, mode, err, ops) ==
    [kind |-> kind, mode |-> mode, err |-> err, ops |-> ops]

\* one invocation of an operation of RedrawEvents with its typed parameters
Invoke(op, params) == [op |-> op, params |-> params]

\* the sink operation ran and returned out
Invoked(op, params, out) == Ret("Ok", out, "", <<Invoke(op, params)>>)

\* the dispatch left with r (Err or Panic) before the sink was called
Failed(r) == Ret(r.kind, Nothing, r.err, <<>>)

\* args[i] of a Vec (Rust counts from 0, the model from 1): panics when absent
Index(args, i) ==
    IF i <= Len(args) THEN Ok(args[i]) ELSE Panic("index out of bounds")

\* try_str!(args[i]), try_int!(args[i]), try_uint!(args[i]), try_bool!(args[i])
try_str_at(args, i) ==
    IF Index(args, i).kind = "Ok" THEN try_str(args[i]) ELSE Index(args, i)

try_int_at(args, i) ==
    IF Index(args, i).kind = "Ok" THEN try_int(args[i]) ELSE Index(args, i)

try_uint_at(args, i) ==
    IF Index(args, i).kind = "Ok" THEN try_uint(args[i]) ELSE Index(args, i)

try_bool_at(args, i) ==
    IF Index(args, i).kind = "Ok" THEN try_bool(args[i]) ELSE Index(args, i)

\* call! handing the coerced values to the operation last argument first
CallMacro_reversed(op, kinds, args, out) ==
    LET arg(i) == IF i > Len(args)
                  THEN Err("No such argument")
                  ELSE try_arg(args[i], kinds[i])
        bad == { i \in 1..Len(kinds) : arg(i).kind # "Ok" }
    IN  IF bad = {}
        THEN Invoked(op, [i \in 1..Len(kinds) |-> arg(Len(kinds) + 1 - i).val], out)
        ELSE Failed(arg(Min(bad)))

(***************************************************************************)
(* call!: the arguments are taken from the iterator and coerced one after  *)
(* the other, left to right, each with ?, and only then the operation is   *)
(* called.                                                                 *)
(***************************************************************************)
CallMacro(op, kinds, args, out) ==
    LET arg(i) == IF i > Len(args)
                  THEN Err("No such argument")
                  ELSE try_arg(args[i], kinds[i])
        bad == { i \in 1..Len(kinds) : arg(i).kind # "Ok" }
    IN  IF bad = {}
        THEN Invoked(op, [i \in 1..Len(kinds) |-> arg(i).val], out)
        ELSE Failed(arg(Min(bad)))

(***************************************************************************)
(* map_array!: the argument as an array, every item through the closure;   *)
(* collect stops at the first item that fails.  results are the results of *)
(* the closure on the items of arg, in order.                              *)
(***************************************************************************)
map_array(arg, err, results) ==
    IF arg.tag # "Array" THEN Err(err)
    ELSE LET bad == { i \in 1..Len(results) : results[i].kind # "Ok" }
         IN  IF bad = {}
             THEN Ok(Value("Vec", 0, "", FALSE,
                           [i \in 1..Len(results) |-> results[i].val]))
             ELSE results[Min(bad)]

(***************************************************************************)
(* CompleteItem::map: cells 0..3 of every row, by unchecked indexing.      *)
(***************************************************************************)
CompleteItem(row) ==
    [word |-> row[1].s, kind |-> row[2].s, menu |-> row[3].s, info |-> row[4].s]

CompleteItem_map(menu) ==
    IF \E i \in 1..Len(menu.items) : Len(menu.items[i].items) < 4
    THEN Panic("index out of bounds")
    ELSE Ok(Value("Vec", 0, "", FALSE,
                  [i \in 1..Len(menu.items) |-> CompleteItem(menu.items[i].items)]))

(***************************************************************************)
(* ValueMapExt::to_attrs_map and the lookup in the map it builds.          *)
(***************************************************************************)
to_attrs_map(m) ==
    IF \A i \in Keys(m.items) : m.items[i].tag = "String" /\ m.items[i].b
    THEN Ok(Value("HashMap", 0, "", FALSE, LastWins(m.items)))
    ELSE Err("Can't convert map key to string")

\* HashMap::get: Ok(value) for Some(value), Err for None
get(attrs, key) ==
    LET at == { i \in Keys(attrs.items) : attrs.items[i].s = key }
    IN  IF at = {} THEN Err("None") ELSE Ok(attrs.items[Min(at) + 1])

\* ModeInfo::new
ModeInfo_new(mi_map) ==
    LET attrs == to_attrs_map(mi_map)
    IN  IF attrs.kind = "Ok" THEN Ok(Typed("ModeInfo", attrs.val)) ELSE attrs

(***************************************************************************)
(* The three hand-written arms of call.                                    *)
(***************************************************************************)
popupmenu_show(args, out) ==
    LET col(c) == IF c.tag = "String" /\ c.b
                  THEN Ok(Typed("str", c))
                  ELSE Err("Error get menu column")
        item(it) == map_array(it, "Error get menu item array",
                              [j \in 1..Len(it.items) |-> col(it.items[j])])
        a0 == Index(args, 1)
        menu_items ==
            IF a0.kind # "Ok" THEN a0
            ELSE map_array(a0.val, "Error get menu list array",
                           [i \in 1..Len(a0.val.items) |-> item(a0.val.items[i])])
        menu == IF menu_items.kind # "Ok" THEN menu_items
                ELSE CompleteItem_map(menu_items.val)
        selected == IF menu.kind # "Ok" THEN menu ELSE try_int_at(args, 2)
        row == IF selected.kind # "Ok" THEN selected ELSE try_uint_at(args, 3)
        column == IF row.kind # "Ok" THEN row ELSE try_uint_at(args, 4)
    IN  IF column.kind = "Ok"
        THEN Invoked("popupmenu_show",
                     <<menu.val, selected.val, row.val, column.val>>, out)
        ELSE Failed(column)

tabline_update(args, out) ==
    LET attrs(tab_attrs) ==
            LET name == get(tab_attrs, "name")
                name_attr == IF name.kind = "Ok" /\ name.val.tag = "String"
                                /\ name.val.b
                             THEN Typed("Some", name.val)
                             ELSE Value("None", 0, "", FALSE, <<>>)
                tab_id == get(tab_attrs, "tab")
            IN  IF tab_id.kind # "Ok"
                THEN Panic("called Option::unwrap() on a None value")
                ELSE Ok(Value("Tuple", 0, "", FALSE,
                              <<Value("Tabpage", 0, "", FALSE, <<tab_id.val>>),
                                name_attr>>))
        entry(tab) ==
            IF tab.tag # "Map" THEN Err("Error get map for tab")
            ELSE IF to_attrs_map(tab).kind # "Ok" THEN to_attrs_map(tab)
            ELSE attrs(to_attrs_map(tab).val)
        a1 == Index(args, 2)
        tabs_out ==
            IF a1.kind # "Ok" THEN a1
            ELSE map_array(a1.val, "Error get tabline list",
                           [i \in 1..Len(a1.val.items) |-> entry(a1.val.items[i])])
        selected == IF tabs_out.kind # "Ok" THEN tabs_out ELSE Index(args, 1)
    IN  IF selected.kind = "Ok"
        THEN Invoked("tabline_update",
                     <<Value("Tabpage", 0, "", FALSE, <<selected.val>>),
                       tabs_out.val>>, out)
        ELSE Failed(selected)

mode_info_set(args, out) ==
    LET entry(mi) == IF mi.tag # "Map"
                     THEN Err("Erro get map for mode_info")
                     ELSE ModeInfo_new(mi)
        a1 == Index(args, 2)
        mode_info ==
            IF a1.kind # "Ok" THEN a1
            ELSE map_array(a1.val, "Error get array key value for mode_info",
                           [i \in 1..Len(a1.val.items) |-> entry(a1.val.items[i])])
        cursor_style_enabled ==
            IF mode_info.kind # "Ok" THEN mode_info ELSE try_bool_at(args, 1)
    IN  IF cursor_style_enabled.kind = "Ok"
        THEN Invoked("mode_info_set",
                     <<cursor_style_enabled.val, mode_info.val>>, out)
        ELSE Failed(cursor_style_enabled)

\* an arm without call! that insists on an empty argument vector
Direct_rejecting_arguments(op, params, args, out) ==
    IF args = <<>> THEN Invoked(op, params, out)
    ELSE Failed(Err("Unexpected argument"))

\* the arms without call!: the operation is called with fixed parameters and
\* the argument vector is not looked at
Direct(op, params, args, out) == Invoked(op, params, out)

\* the arms that drop the repaint mode of the operation and answer Nothing
Discard(r) == IF r.kind = "Ok" THEN [r EXCEPT !.mode = Nothing] ELSE r

\* an unknown name treated the way call_gui_event treats one
unrecognized_is_error(method, args) == Failed(Err("Unsupported event"))

\* the last arm: the event is logged (warn!) and nothing is to be repainted
unrecognized(method, args) == Ret("Ok", Nothing, "", <<>>)

(***************************************************************************)
(* call(ui, method, args).  out is the repaint mode the sink operation     *)
(* returns when it is invoked.                                             *)
(***************************************************************************)
call(method, args, out) ==
    CASE method = "cursor_goto" ->
            CallMacro("on_cursor_goto", <<"uint", "uint">>, args, out)
      [] method = "put" -> CallMacro("on_put", <<"str">>, args, out)
      [] method = "clear" ->
            Direct("on_clear", <<>>, args, out)
      [] method = "resize" -> CallMacro("on_resize", <<"uint", "uint">>, args, out)
      [] method = "highlight_set" ->
            Discard(CallMacro("on_highlight_set", <<"attrs">>, args, out))
      [] method = "eol_clear" ->
            Direct("on_eol_clear", <<>>, args, out)
      [] method = "set_scroll_region" ->
            Discard(CallMacro("on_set_scroll_region",
                              <<"uint", "uint", "uint", "uint">>, args, out))
      [] method = "scroll" -> CallMacro("on_scroll", <<"int">>, args, out)
      [] method = "update_bg" -> CallMacro("on_update_bg", <<"int">>, args, out)
      [] method = "update_fg" -> CallMacro("on_update_fg", <<"int">>, args, out)
      [] method = "update_sp" -> CallMacro("on_update_sp", <<"int">>, args, out)
      [] method = "mode_change" ->
            CallMacro("on_mode_change", <<"str", "uint">>, args, out)
      [] method = "mouse_on" ->
            Direct("on_mouse", <<Typed("bool", Boolean(TRUE))>>, args, out)
      [] method = "mouse_off" ->
            Direct("on_mouse", <<Typed("bool", Boolean(FALSE))>>, args, out)
      [] method = "busy_start" ->
            Direct("on_busy", <<Typed("bool", Boolean(TRUE))>>, args, out)
      [] method = "busy_stop" ->
            Direct("on_busy", <<Typed("bool", Boolean(FALSE))>>, args, out)
      [] method = "popupmenu_show" -> popupmenu_show(args, out)
      [] method = "popupmenu_hide" ->
            Direct("popupmenu_hide", <<>>, args, out)
      [] method = "popupmenu_select" ->
            CallMacro("popupmenu_select", <<"int">>, args, out)
      [] method = "tabline_update" -> tabline_update(args, out)
      [] method = "mode_info_set" -> mode_info_set(args, out)
      [] method = "cmdline_show" ->
            CallMacro("cmdline_show",
                      <<"content", "uint", "str", "str", "uint", "uint">>, args, out)
      [] method = "cmdline_block_show" ->
            CallMacro("cmdline_block_show", <<"block">>, args, out)
      [] method = "cmdline_block_append" ->
            CallMacro("cmdline_block_append", <<"content">>, args, out)
      [] method = "cmdline_hide" -> CallMacro("cmdline_hide", <<"uint">>, args, out)
      [] method = "cmdline_block_hide" ->
            Direct("cmdline_block_hide", <<>>, args, out)
      [] method = "cmdline_pos" ->
            CallMacro("cmdline_pos", <<"uint", "uint">>, args, out)
      [] method = "cmdline_special_char" ->
            CallMacro("cmdline_special_char", <<"str", "bool", "uint">>, args, out)
      [] OTHER -> unrecognized(method, args)

(***************************************************************************)
(* The argument kinds each arm of call asks for, position by position.     *)
(* The three hand-written arms decode with their own code: menu, tabs and  *)
(* mode_infos name what they decode; the first argument of tabline_update  *)
(* is wrapped as it comes (any).                                           *)
(***************************************************************************)
Kinds(method) ==
    CASE method \in {"cursor_goto", "resize", "cmdline_pos"} -> <<"uint", "uint">>
      [] method \in {"put"} -> <<"str">>
      [] method = "highlight_set" -> <<"attrs">>
      [] method = "set_scroll_region" -> <<"uint", "uint", "uint", "uint">>
      [] method \in {"scroll", "update_bg", "update_fg", "update_sp",
                     "popupmenu_select"} -> <<"int">>
      [] method = "mode_change" -> <<"str", "uint">>
      [] method = "popupmenu_show" -> <<"menu", "int", "uint", "uint">>
      [] method = "tabline_update" -> <<"any", "tabs">>
      [] method = "mode_info_set" -> <<"bool", "mode_infos">>
      [] method = "cmdline_show" ->
            <<"content", "uint", "str", "str", "uint", "uint">>
      [] method = "cmdline_block_show" -> <<"block">>
      [] method = "cmdline_block_append" -> <<"content">>
      [] method = "cmdline_hide" -> <<"uint">>
      [] method = "cmdline_special_char" -> <<"str", "bool", "uint">>
      [] OTHER -> <<>>

\* the operation of RedrawEvents each arm of call invokes
SinkOp(method) ==
    CASE method \in {"cursor_goto", "put", "clear", "resize", "highlight_set",
                     "eol_clear", "set_scroll_region", "scroll", "update_bg",
                     "update_fg", "update_sp", "mode_change"} -> "on_" \o method
      [] method \in {"mouse_on", "mouse_off"} -> "on_mouse"
      [] method \in {"busy_start", "busy_stop"} -> "on_busy"
      [] OTHER -> method

(***************************************************************************)
(* call_gui_event(ui, method, args).  The result is Ok(()), Err(message) or *)
(* a panic, with the operations on the UI state and the editor session it  *)
(* performed, in order:                                                    *)
(*   set_font(s), clipboard_primary_set(s), clipboard_clipboard_set(s),    *)
(*   set_option(s = option, b = enabled), error!(s) (the log).             *)
(* session: ui.nvim() is Some; rpc: the editor accepts the option change.  *)
(***************************************************************************)
Effect(op, s, b) == [op |-> op, s |-> s, b |-> b]

GuiRet(kind, err, effects) == [kind |-> kind, err |-> err, effects |-> effects]

GuiFailed(r) == GuiRet(r.kind, r.err, <<>>)

\* the option arms answering Ok without a session
UiOption_silent_without_session(name, args, session, rpc) ==
    IF ~session THEN GuiRet("Ok", "", <<>>)
    ELSE LET on == try_uint_at(args, 2)
         IN  IF on.kind # "Ok" THEN GuiFailed(on)
             ELSE GuiRet(IF rpc THEN "Ok" ELSE "Err",
                         IF rpc THEN "" ELSE "rpc error",
                         <<Effect("set_option", name, on.val.i = 1)>>)

\* the arms Popupmenu, Tabline and Cmdline of Option
UiOption(name, args, session, rpc) ==
    IF ~session THEN GuiRet("Err", "Nvim not initialized", <<>>)
    ELSE LET on == try_uint_at(args, 2)
         IN  IF on.kind # "Ok" THEN GuiFailed(on)
             ELSE GuiRet(IF rpc THEN "Ok" ELSE "Err",
                         IF rpc THEN "" ELSE "rpc error",
                         <<Effect("set_option", name, on.val.i = 1)>>)

\* Clipboard Set writing the text to both
clipboard_set_both(sel, text) ==
    GuiRet("Ok", "", <<Effect("clipboard_primary_set", text, FALSE),
                       Effect("clipboard_clipboard_set", text, FALSE)>>)

\* Clipboard Set: the selection picks the one of the two that is written
clipboard_set(sel, text) ==
    IF sel = "*"
    THEN GuiRet("Ok", "", <<Effect("clipboard_primary_set", text, FALSE)>>)
    ELSE GuiRet("Ok", "", <<Effect("clipboard_clipboard_set", text, FALSE)>>)

\* an unknown sub-option answered with an error
unknown_option_is_error(opt) == GuiRet("Err", "Unknown option", <<>>)

\* opt => error!("Unknown option {}", opt): logged, and Ok(()) at the end
unknown_option(opt) == GuiRet("Ok", "", <<Effect("error!", opt, FALSE)>>)

\* an unknown name treated the way call treats one
unsupported_event_is_ok(method, args) == GuiRet("Ok", "", <<>>)

\* the last arm
unsupported_event(method, args) == GuiRet("Err", "Unsupported event", <<>>)

call_gui_event(method, args, session, rpc) ==
    CASE method = "Font" ->
            LET desc == try_str_at(args, 1)
            IN  IF desc.kind # "Ok" THEN GuiFailed(desc)
                ELSE GuiRet("Ok", "", <<Effect("set_font", desc.val.s, FALSE)>>)
      [] method = "Clipboard" ->
            LET sub == try_str_at(args, 1)
            IN  IF sub.kind # "Ok" THEN GuiFailed(sub)
                ELSE IF sub.val.s = "Set"
                THEN LET sel == try_str_at(args, 2)
                         text == try_str_at(args, 3)
                     IN  IF sel.kind # "Ok" THEN GuiFailed(sel)
                         ELSE IF text.kind # "Ok" THEN GuiFailed(text)
                         ELSE clipboard_set(sel.val.s, text.val.s)
                ELSE unknown_option(sub.val.s)
      [] method = "Option" ->
            LET sub == try_str_at(args, 1)
            IN  IF sub.kind # "Ok" THEN GuiFailed(sub)
                ELSE IF sub.val.s \in {"Popupmenu", "Tabline", "Cmdline"}
                THEN UiOption(sub.val.s, args, session, rpc)
                ELSE unknown_option(sub.val.s)
      [] OTHER -> unsupported_event(method, args)

(***************************************************************************)
(* The UI state the command dispatcher works on (shell::State): the font,  *)
(* and the text of the primary selection and of the clipboard ("" with     *)
(* has = FALSE: no text).                                                  *)
(***************************************************************************)
NoText == [has |-> FALSE, text |-> ""]

Text(s) == [has |-> TRUE, text |-> s]

\* the UI state after one operation
Perform(state, e) ==
    CASE e.op = "set_font" -> [state EXCEPT !.font = e.s]
      [] e.op = "clipboard_primary_set" -> [state EXCEPT !.primary = Text(e.s)]
      [] e.op = "clipboard_clipboard_set" -> [state EXCEPT !.clipboard = Text(e.s)]
      [] OTHER -> state

RECURSIVE PerformAll(_, _)
PerformAll(state, effects) ==
    IF effects = <<>> THEN state
    ELSE PerformAll(Perform(state, Head(effects)), Tail(effects))

(***************************************************************************)
(* str::split("\n") for the answer of Clipboard Get.  A text is the        *)
(* sequence of its characters.                                             *)
(***************************************************************************)
Chars(s) ==
    CASE s = "" -> <<>>
      [] s = "a" -> <<"a">>
      [] s = "b" -> <<"b">>
      [] s = "f" -> <<"f">>
      [] s = "a\nb" -> <<"a", "\n", "b">>
      [] s = "a\n" -> <<"a", "\n">>
      [] s = "\n\n" -> <<"\n", "\n">>

Texts == { "", "a", "b", "f", "a\nb", "a\n", "\n\n" }

\* the string of a sequence of characters
Str(cs) == CHOOSE s \in Texts : Chars(s) = cs

\* the split that leaves out a last empty piece, as str::lines does
split_without_last_empty(cs) ==
    LET nl == { i \in 1..Len(cs) : cs[i] = "\n" }
        cut(k) == IF k = 0 THEN 0
                  ELSE IF k > Cardinality(nl) THEN Len(cs) + 1
                  ELSE CHOOSE i \in nl : Cardinality({ j \in nl : j <= i }) = k
        n == IF cs = <<>> \/ cs[Len(cs)] = "\n"
             THEN Cardinality(nl) ELSE Cardinality(nl) + 1
    IN  [k \in 1..n |-> SubSeq(cs, cut(k - 1) + 1, cut(k) - 1)]

\* the pieces between the newlines, in order: one more than there are newlines
split(cs) ==
    LET nl == { i \in 1..Len(cs) : cs[i] = "\n" }
        cut(k) == IF k = 0 THEN 0
                  ELSE IF k > Cardinality(nl) THEN Len(cs) + 1
                  ELSE CHOOSE i \in nl : Cardinality({ j \in nl : j <= i }) = k
    IN  [k \in 1..(Cardinality(nl) + 1) |-> SubSeq(cs, cut(k - 1) + 1, cut(k) - 1)]

(***************************************************************************)
(* The wire data the dispatchers are driven with.                          *)
(***************************************************************************)
Row(cells) == Array([i \in 1..Len(cells) |-> String(cells[i])])

Attrs == Map(<<String("fg"), Integer(1)>>)

AttrsTwice == Map(<<String("fg"), Integer(1), String("fg"), Integer(2)>>)

AttrsBadKey == Map(<<Integer(1), Integer(1)>>)

Tab(id) == Map(<<String("tab"), Integer(id), String("name"), String("a")>>)

TabUnnamed == Map(<<String("tab"), Integer(2)>>)

TabNoId == Map(<<String("name"), String("a")>>)

Cell == Array(<<Attrs, String("a")>>)

Scalars == { Nil, Boolean(TRUE), Integer(-1), Integer(1), String("a"), BadString }

Menus ==
    { Array(<<>>),
      Array(<<Row(<<"w", "k", "m", "i">>)>>),
      Array(<<Row(<<"w", "k", "m", "i">>), Row(<<"x", "y", "z", "u">>)>>),
      Array(<<Row(<<"w", "k", "m", "i", "e">>)>>),
      Array(<<Row(<<"w", "k", "m">>)>>),
      Array(<<Row(<<"w", "k", "m", "i">>), Row(<<>>)>>),
      Array(<<Row(<<"w", "k", "m">>), Integer(1)>>),
      Array(<<Array(<<String("w"), Integer(1), String("m"), String("i")>>)>>),
      Array(<<Integer(1)>>) }

Maps == { Attrs, AttrsTwice, AttrsBadKey, Map(<<>>) }

Tabs ==
    { Array(<<Tab(1)>>),
      Array(<<Tab(1), TabUnnamed>>),
      Array(<<TabNoId>>),
      Array(<<Tab(1), TabNoId>>),
      Array(<<TabNoId, Integer(1)>>),
      Array(<<AttrsBadKey>>) }

Contents ==
    { Array(<<Cell>>),
      Array(<<Array(<<Attrs>>)>>),
      Array(<<Array(<<Cell>>)>>),
      Array(<<Attrs>>),
      Array(<<AttrsTwice>>) }

Values == Scalars \cup Menus \cup Maps \cup Tabs \cup Contents

RedrawMethods ==
    { "cursor_goto", "put", "clear", "resize", "highlight_set", "eol_clear",
      "set_scroll_region", "scroll", "update_bg", "update_fg", "update_sp",
      "mode_change", "mouse_on", "mouse_off", "busy_start", "busy_stop",
      "popupmenu_show", "popupmenu_hide", "popupmenu_select", "tabline_update",
      "mode_info_set", "cmdline_show", "cmdline_block_show",
      "cmdline_block_append", "cmdline_hide", "cmdline_block_hide",
      "cmdline_pos", "cmdline_special_char" }

\* names call has no arm for
OtherMethods == { "future_feature", "Font", "Clipboard", "redraw", "" }

\* an argument list every position of which the method accepts
GoodArgs(method) ==
    CASE method \in {"cursor_goto", "resize", "cmdline_pos"} ->
            <<Integer(1), Integer(2)>>
      [] method = "put" -> <<String("a")>>
      [] method = "highlight_set" -> <<Attrs>>
      [] method = "set_scroll_region" ->
            <<Integer(0), Integer(1), Integer(2), Integer(3)>>
      [] method \in {"scroll", "update_bg", "update_fg", "update_sp",
                     "popupmenu_select"} -> <<Integer(-1)>>
      [] method = "mode_change" -> <<String("a"), Integer(1)>>
      [] method = "popupmenu_show" ->
            <<Array(<<Row(<<"w", "k", "m", "i">>)>>),
              Integer(-1), Integer(1), Integer(2)>>
      [] method = "tabline_update" -> <<Integer(1), Array(<<Tab(1)>>)>>
      [] method = "mode_info_set" -> <<Boolean(TRUE), Array(<<Attrs>>)>>
      [] method = "cmdline_show" ->
            <<Array(<<Cell>>), Integer(1), String("a"), String("b"),
              Integer(2), Integer(3)>>
      [] method = "cmdline_block_show" -> <<Array(<<Array(<<Cell>>)>>)>>
      [] method = "cmdline_block_append" -> <<Array(<<Cell>>)>>
      [] method = "cmdline_hide" -> <<Integer(1)>>
      [] method = "cmdline_special_char" ->
            <<String("a"), Boolean(TRUE), Integer(1)>>
      [] OTHER -> <<>>

\* the good list, cut short, with one value replaced, or with a value appended;
\* for a method that takes no argument, lists other methods take
ArgLists(method) ==
    LET good == GoodArgs(method)
    IN  { SubSeq(good, 1, n) : n \in 0..Len(good) }
        \cup { [good EXCEPT ![i] = v] : i \in 1..Len(good), v \in Values }
        \cup { [SubSeq(good, 1, n) EXCEPT ![i] = v] :
                   n \in 1..Len(good), i \in {1}, v \in Menus \cup Tabs }
        \cup { Append(good, v) : v \in Scalars }
        \cup (IF good # <<>> THEN {}
              ELSE { <<v, w>> : v \in Scalars, w \in Scalars }
                   \cup { GoodArgs(m) : m \in RedrawMethods })

\* the repaint modes a sink operation may return
SinkModes == { Nothing, Cursor(0, 1), Cursor(1, 0), Area(0, 1, 0, 1), Full }

(***************************************************************************)
(* State.                                                                  *)
(***************************************************************************)
VARIABLES
    callIn,       \* a direct call(): the method, the arguments, what the sink returns
    callRet,      \* what that call did, once it has run
    foldIn,       \* the repaint modes handed to fold
    foldPos,      \* how many of them have been combined
    foldAcc,      \* the combination so far
    batch,        \* the notification batch being processed: its calls, in wire order
    pos,          \* how many calls of the batch have been dispatched
    pc,           \* "idle", "dispatching", "done" (on_redraw delivered) or "crashed"
    repaint_mode, \* the fold of the repaint modes of the batch so far
    modes,        \* the repaint modes the calls of the batch returned, in order
    sinkLog,      \* the operations of the sink invoked for the batch, in order
    errors,       \* the errors reported for the batch: <<position, message>>
    redraws,      \* the instructions on_redraw was given for the batch
    ui,           \* the UI state: font, primary selection, clipboard
    session,      \* an editor session is established (ui.nvim() is Some)
    uiBorrow,     \* the UI state is exclusively borrowed (RefCell::borrow_mut)
    fault,        \* a second exclusive borrow was attempted: BorrowMutError
    evIn,         \* the latest command since the last request began
    evRet,        \* what call_gui_event did with it
    reqIn,        \* the request being answered: method and arguments
    reqPc,        \* "idle", "borrowed", "waiting", "done" or "crashed"
    reqClip,      \* the clipboard the request has picked
    reentered,    \* commands the event loop ran during the wait of the request
    reqRet        \* the answer of the request

callVars == <<callIn, callRet>>

foldVars == <<foldIn, foldPos, foldAcc>>

batchVars == <<batch, pos, pc, repaint_mode, modes, sinkLog, errors, redraws>>

guiVars == <<ui, session, uiBorrow, fault, evIn, evRet,
             reqIn, reqPc, reqClip, reentered, reqRet>>

vars == <<callVars, foldVars, batchVars, guiVars>>

NotRun == Ret("NotRun", Nothing, "", <<>>)

NoCall == [method |-> "", args |-> <<>>, out |-> Nothing]

IdleCall == callIn = NoCall /\ callRet = NotRun

IdleFold == foldIn = <<>> /\ foldPos = 0 /\ foldAcc = Nothing

IdleBatch ==
    /\ batch = <<>>
    /\ pos = 0
    /\ pc = "idle"
    /\ repaint_mode = Nothing
    /\ modes = <<>>
    /\ sinkLog = <<>>
    /\ errors = <<>>
    /\ redraws = <<>>

NoCommand == [method |-> "", args |-> <<>>]

IdleGui ==
    /\ ui = [font |-> "", primary |-> NoText, clipboard |-> NoText]
    /\ session = FALSE
    /\ uiBorrow = FALSE
    /\ fault = FALSE
    /\ evIn = NoCommand
    /\ evRet = GuiRet("NotRun", "", <<>>)
    /\ reqIn = NoCommand
    /\ reqPc = "idle"
    /\ reqClip = "none"
    /\ reentered = 0
    /\ reqRet = Ok(Nil)

(***************************************************************************)
(* One direct call of the redraw dispatcher.                               *)
(***************************************************************************)
InitCall ==
    /\ \E method \in RedrawMethods \cup OtherMethods :
         \E args \in ArgLists(method), out \in SinkModes :
            callIn = [method |-> method, args |-> args, out |-> out]
    /\ callRet = NotRun
    /\ IdleFold
    /\ IdleBatch
    /\ IdleGui

\* call(ui, method, args) on its own
Call ==
    /\ callRet = NotRun
    /\ callRet' = call(callIn.method, callIn.args, callIn.out)
    /\ UNCHANGED <<callIn, foldVars, batchVars, guiVars>>

NextCall == Call

SpecCall == InitCall /\ [][NextCall]_vars

(***************************************************************************)
(* The repaint aggregator on its own: a sequence of repaint modes is       *)
(* combined one by one, in append order.                                   *)
(***************************************************************************)
MaxFold == 3

FoldModes ==
    { Nothing, Full, Cursor(0, 1), Cursor(1, 0), Cursor(2, 2),
      Area(0, 1, 0, 1), Area(1, 2, 0, 0), Area(0, 0, 1, 2), Area(2, 3, 2, 3) }

SeqsUpTo(S, n) == UNION { [1..k -> S] : k \in 0..n }

InitFold ==
    /\ foldIn \in SeqsUpTo(FoldModes, MaxFold)
    /\ foldPos = 0
    /\ foldAcc = Nothing
    /\ IdleCall
    /\ IdleBatch
    /\ IdleGui

FoldStep ==
    /\ foldPos < Len(foldIn)
    /\ foldAcc' = join(foldAcc, foldIn[foldPos + 1])
    /\ foldPos' = foldPos + 1
    /\ UNCHANGED <<foldIn, callVars, batchVars, guiVars>>

NextFold == FoldStep

SpecFold == InitFold /\ [][NextFold]_vars

(***************************************************************************)
(* Processing of notification batches.  Every call of the batch is         *)
(* dispatched in wire order; an error a call returns is reported and the   *)
(* next call is attempted; the repaint modes are combined; when every call *)
(* has been dispatched, on_redraw is given the combined instruction.  A    *)
(* panic inside a call ends the process.                                   *)
(***************************************************************************)
MaxBatch == 2

\* the calls the batches are made of: well-formed, rejected, panicking, unknown
BatchCalls ==
    { [method |-> "cursor_goto", args |-> <<Integer(1), Integer(2)>>],
      [method |-> "put", args |-> <<String("a")>>],
      [method |-> "clear", args |-> <<>>],
      [method |-> "put", args |-> <<>>],
      [method |-> "cursor_goto", args |-> <<Integer(1), String("a")>>],
      [method |-> "popupmenu_show",
       args |-> <<Array(<<Row(<<"w", "k", "m">>)>>), Integer(0), Integer(1), Integer(2)>>],
      [method |-> "future_feature", args |-> <<Integer(1)>>] }

Init ==
    /\ IdleBatch
    /\ IdleCall
    /\ IdleFold
    /\ IdleGui

\* the transport delivers the next batch
Receive ==
    /\ pc \in {"idle", "done"}
    /\ \E b \in SeqsUpTo(BatchCalls, MaxBatch) :
         /\ b # <<>>
         /\ batch' = b
    /\ pos' = 0
    /\ pc' = "dispatching"
    /\ repaint_mode' = Nothing
    /\ modes' = <<>>
    /\ sinkLog' = <<>>
    /\ errors' = <<>>
    /\ redraws' = <<>>
    /\ UNCHANGED <<callVars, foldVars, guiVars>>

\* a turn of the loop that puts the operations of the call before the earlier ones
Dispatch_latest_first ==
    /\ pc = "dispatching"
    /\ pos < Len(batch)
    /\ \E out \in SinkModes :
         LET r == call(batch[pos + 1].method, batch[pos + 1].args, out)
         IN  /\ sinkLog' = r.ops \o sinkLog
             /\ pos' = pos + 1
             /\ CASE r.kind = "Ok" ->
                        /\ repaint_mode' = join(repaint_mode, r.mode)
                        /\ modes' = Append(modes, r.mode)
                        /\ UNCHANGED <<errors, pc>>
                  [] r.kind = "Err" ->
                        /\ errors' = Append(errors, <<pos + 1, r.err>>)
                        /\ UNCHANGED <<repaint_mode, modes, pc>>
                  [] r.kind = "Panic" ->
                        /\ pc' = "crashed"
                        /\ UNCHANGED <<repaint_mode, modes, errors>>
    /\ UNCHANGED <<batch, redraws, callVars, foldVars, guiVars>>

\* one turn of the loop over the calls of the batch
Dispatch ==
    /\ pc = "dispatching"
    /\ pos < Len(batch)
    /\ \E out \in SinkModes :
         LET r == call(batch[pos + 1].method, batch[pos + 1].args, out)
         IN  /\ sinkLog' = sinkLog \o r.ops
             /\ pos' = pos + 1
             /\ CASE r.kind = "Ok" ->
                        /\ repaint_mode' = join(repaint_mode, r.mode)
                        /\ modes' = Append(modes, r.mode)
                        /\ UNCHANGED <<errors, pc>>
                  [] r.kind = "Err" ->
                        /\ errors' = Append(errors, <<pos + 1, r.err>>)
                        /\ UNCHANGED <<repaint_mode, modes, pc>>
                  [] r.kind = "Panic" ->
                        /\ pc' = "crashed"
                        /\ UNCHANGED <<repaint_mode, modes, errors>>
    /\ UNCHANGED <<batch, redraws, callVars, foldVars, guiVars>>

\* after the last call: the single notification of the sink
on_redraw ==
    /\ pc = "dispatching"
    /\ pos = Len(batch)
    /\ redraws' = Append(redraws, repaint_mode)
    /\ pc' = "done"
    /\ UNCHANGED <<batch, pos, repaint_mode, modes, sinkLog, errors,
                   callVars, foldVars, guiVars>>

Next == Receive \/ Dispatch \/ on_redraw

Spec == Init /\ [][Next]_vars

(***************************************************************************)
(* The side channel: commands (call_gui_event) and requests                *)
(* (call_gui_request), run by the event loop of the UI thread.  A command  *)
(* is run with the UI state exclusively borrowed by its caller.  The       *)
(* request Clipboard Get waits for the clipboard text on the event loop,   *)
(* which runs the commands that arrive meanwhile.                          *)
(***************************************************************************)
MaxReentered == 1

GuiMethods == { "Font", "Clipboard", "Option", "Bogus", "cursor_goto" }

\* argument lists of the commands and requests, by method; Cut and Cursor are
\* sub-options the dispatchers do not know
GuiLists(method) ==
    CASE method = "Font" -> { <<String("f")>>, <<BadString>> }
      [] method = "Clipboard" ->
            { <<String("Set"), String("*"), String("a\nb")>>,
              <<String("Set"), String("+"), String("a\n")>>,
              <<String("Set"), String("+"), String("")>>,
              <<String("Get"), String("*")>>,
              <<String("Get"), String("+")>>,
              <<String("Cut"), String("*")>> }
      [] method = "Option" ->
            { <<String("Popupmenu"), Integer(1)>>,
              <<String("Tabline"), Integer(0)>>,
              <<String("Cmdline"), Integer(1)>>,
              <<String("Cursor"), Integer(1)>> }
      [] OTHER -> { <<>>, <<Integer(1), Integer(2)>> }

\* the lists of the method, whole, cut short, or with one value replaced by Nil
GuiArgs(method) ==
    UNION { { SubSeq(l, 1, n) : n \in 0..Len(l) }
            \cup { [l EXCEPT ![i] = Nil] : i \in 1..Len(l) } :
            l \in GuiLists(method) }

InitGui ==
    /\ ui = [font |-> "", primary |-> NoText, clipboard |-> NoText]
    /\ session \in BOOLEAN
    /\ uiBorrow = FALSE
    /\ fault = FALSE
    /\ evIn = NoCommand
    /\ evRet = GuiRet("NotRun", "", <<>>)
    /\ reqIn = NoCommand
    /\ reqPc = "idle"
    /\ reqClip = "none"
    /\ reentered = 0
    /\ reqRet = Ok(Nil)
    /\ IdleCall
    /\ IdleFold
    /\ IdleBatch

\* a panic has ended the process
Dead == fault \/ evRet.kind = "Panic" \/ reqPc = "crashed"

\* the event loop is running: between two handlers, or inside wait_for_text
LoopRuns == reqPc \in {"idle", "done", "waiting"}

\* a command notification: the caller borrows the UI state for call_gui_event
GuiEvent ==
    /\ ~Dead
    /\ LoopRuns
    /\ reqPc = "waiting" => reentered < MaxReentered
    /\ \E method \in GuiMethods, rpc \in BOOLEAN :
       \E args \in GuiArgs(method) :
         /\ evIn' = [method |-> method, args |-> args]
         /\ IF uiBorrow
            THEN /\ fault' = TRUE
                 /\ UNCHANGED <<ui, evRet>>
            ELSE LET r == call_gui_event(method, args, session, rpc)
                 IN  /\ evRet' = r
                     /\ ui' = PerformAll(ui, r.effects)
                     /\ UNCHANGED fault
    /\ IF reqPc = "waiting"
       THEN /\ reentered' = reentered + 1
            /\ UNCHANGED <<reqIn, reqPc, reqClip, reqRet>>
       ELSE \* the answer of the last request has gone out
            /\ reqIn' = NoCommand
            /\ reqPc' = "idle"
            /\ reqClip' = "none"
            /\ reqRet' = Ok(Nil)
            /\ UNCHANGED reentered
    /\ UNCHANGED <<session, uiBorrow, callVars, foldVars, batchVars>>

\* call_gui_request up to the borrow of the UI state
Request ==
    /\ ~Dead
    /\ reqPc \in {"idle", "done"}
    /\ \E method \in GuiMethods :
       \E args \in GuiArgs(method) :
         /\ reqIn' = [method |-> method, args |-> args]
         /\ LET sub == try_str_at(args, 1)
            IN  CASE method # "Clipboard" ->
                        /\ reqRet' = Err("Unsupported request")
                        /\ reqPc' = "done"
                        /\ UNCHANGED <<uiBorrow, fault>>
                  [] method = "Clipboard" /\ sub.kind = "Panic" ->
                        /\ reqRet' = sub
                        /\ reqPc' = "crashed"
                        /\ UNCHANGED <<uiBorrow, fault>>
                  [] method = "Clipboard" /\ sub.kind = "Err" ->
                        /\ reqRet' = sub
                        /\ reqPc' = "done"
                        /\ UNCHANGED <<uiBorrow, fault>>
                  [] method = "Clipboard" /\ sub.kind = "Ok" /\ sub.val.s # "Get" ->
                        /\ reqRet' = Err("Nil")
                        /\ reqPc' = "done"
                        /\ UNCHANGED <<uiBorrow, fault>>
                  [] method = "Clipboard" /\ sub.kind = "Ok" /\ sub.val.s = "Get" ->
                        /\ reqRet' = Ok(Nil)
                        /\ IF uiBorrow
                           THEN fault' = TRUE /\ reqPc' = "crashed"
                                /\ UNCHANGED uiBorrow
                           ELSE uiBorrow' = TRUE /\ reqPc' = "borrowed"
                                /\ UNCHANGED fault
    /\ reqClip' = "none"
    /\ reentered' = 0
    /\ evIn' = NoCommand
    /\ evRet' = GuiRet("NotRun", "", <<>>)
    /\ UNCHANGED <<ui, session, callVars, foldVars, batchVars>>

\* the block that holds the borrow, kept open over the wait
SelectHoldingBorrow ==
    /\ reqPc = "borrowed"
    /\ LET sel == try_str_at(reqIn.args, 2)
       IN  CASE sel.kind = "Panic" ->
                    reqRet' = sel /\ reqPc' = "crashed" /\ reqClip' = reqClip
                    /\ uiBorrow' = FALSE
             [] sel.kind = "Err" ->
                    reqRet' = sel /\ reqPc' = "done" /\ reqClip' = reqClip
                    /\ uiBorrow' = FALSE
             [] sel.kind = "Ok" ->
                    /\ reqClip' = IF sel.val.s = "*" THEN "primary" ELSE "clipboard"
                    /\ reqPc' = "waiting"
                    /\ UNCHANGED <<reqRet, uiBorrow>>
    /\ UNCHANGED <<ui, session, fault, evIn, evRet, reqIn, reentered,
                   callVars, foldVars, batchVars>>

\* the block that holds the borrow: the clipboard is picked by the selection,
\* and the borrow ends with the block, or with the early return or the panic
\* that leaves it
Select ==
    /\ reqPc = "borrowed"
    /\ LET sel == try_str_at(reqIn.args, 2)
       IN  CASE sel.kind = "Panic" ->
                    reqRet' = sel /\ reqPc' = "crashed" /\ reqClip' = reqClip
             [] sel.kind = "Err" ->
                    reqRet' = sel /\ reqPc' = "done" /\ reqClip' = reqClip
             [] sel.kind = "Ok" ->
                    /\ reqClip' = IF sel.val.s = "*" THEN "primary" ELSE "clipboard"
                    /\ reqPc' = "waiting"
                    /\ UNCHANGED reqRet
    /\ uiBorrow' = FALSE
    /\ UNCHANGED <<ui, session, fault, evIn, evRet, reqIn, reentered,
                   callVars, foldVars, batchVars>>

\* wait_for_text returns; the text is split into the lines of the answer
Answer ==
    /\ ~Dead
    /\ reqPc = "waiting"
    /\ LET clip == IF reqClip = "primary" THEN ui.primary ELSE ui.clipboard
           t == IF clip.has THEN clip.text ELSE ""
           lines == split(Chars(t))
       IN  reqRet' = Ok(Array([i \in 1..Len(lines) |-> String(Str(lines[i]))]))
    /\ reqPc' = "done"
    /\ uiBorrow' = FALSE
    /\ UNCHANGED <<ui, session, fault, evIn, evRet, reqIn, reqClip, reentered,
                   callVars, foldVars, batchVars>>

NextGui == GuiEvent \/ Request \/ Select \/ Answer

SpecGui == InitGui /\ [][NextGui]_vars

(***************************************************************************)
(* Properties of the redraw dispatcher, over one direct call.              *)
(***************************************************************************)
Ran == callRet # NotRun

\* the call came back with an error and no operation of the sink was invoked
Rejected == callRet.kind = "Err" /\ callRet.ops = <<>>

\* what the specification counts as a well-formed argument of each kind
IsStr(v) == v.tag = "String" /\ v.b

IsMenu(v) ==
    /\ v.tag = "Array"
    /\ \A i \in 1..Len(v.items) :
         /\ v.items[i].tag = "Array"
         /\ Len(v.items[i].items) >= 4
         /\ \A j \in 1..Len(v.items[i].items) : IsStr(v.items[i].items[j])

IsTabs(v) ==
    /\ v.tag = "Array"
    /\ \A i \in 1..Len(v.items) :
         /\ IsAttrs(v.items[i])
         /\ \E k \in Keys(v.items[i].items) : v.items[i].items[k].s = "tab"

IsModeInfos(v) ==
    /\ v.tag = "Array"
    /\ \A i \in 1..Len(v.items) : IsAttrs(v.items[i])

Conforms(v, kind) ==
    CASE kind = "any" -> TRUE
      [] kind = "menu" -> IsMenu(v)
      [] kind = "tabs" -> IsTabs(v)
      [] kind = "mode_infos" -> IsModeInfos(v)
      [] OTHER -> try_arg(v, kind).kind = "Ok"

\* the positions of a call that hold a value the method does not accept
BadPositionsOf(method, args) ==
    { i \in 1..MinOf(Len(args), Len(Kinds(method))) :
        ~Conforms(args[i], Kinds(method)[i]) }

BadPositions == BadPositionsOf(callIn.method, callIn.args)

\* C1: a recognized redraw method called with fewer arguments than it
\* requires (the empty list included) returns an error and has invoked no
\* operation of the sink.
C1_MissingArgumentIsError ==
    (Ran /\ callIn.method \in RedrawMethods
         /\ Len(callIn.args) < Len(Kinds(callIn.method)))
        => Rejected

\* C2: a recognized redraw method called with a value of the wrong tag, or
\* one that fails structural decoding, at any position returns an error and
\* has invoked no operation of the sink.  (Stated for calls that supply every
\* argument; the shorter ones are C1's.)
C2_CoercionAllOrNothing ==
    (Ran /\ callIn.method \in RedrawMethods
         /\ Len(callIn.args) >= Len(Kinds(callIn.method))
         /\ BadPositions # {})
        => Rejected

\* C3: a method name call does not recognize, with any argument list, succeeds
\* with the repaint mode Nothing and invokes no operation of the sink.
C3_UnknownMethodIsNothing ==
    (Ran /\ callIn.method \notin RedrawMethods)
        => callRet = Ret("Ok", Nothing, "", <<>>)

C3_Witness ==
    /\ Ran
    /\ callIn.method = "future_feature"
    /\ Len(callIn.args) = 2
    /\ callIn.out = Full

\* the rows of the menu argument, when it is an array of arrays
MenuRows == callIn.args[1].items

IsRows(v) ==
    /\ v.tag = "Array"
    /\ \A i \in 1..Len(v.items) : v.items[i].tag = "Array"

\* C10: popupmenu_show with a row of fewer than 4 string cells returns a
\* decode error and does not invoke the sink; with at least 4 string cells in
\* every row (and the other arguments well-formed) it hands the sink one
\* CompleteItem per row, in row order, made of cells 0, 1, 2 and 3.
C10_PopupmenuRows ==
    (Ran /\ callIn.method = "popupmenu_show" /\ Len(callIn.args) >= 1
         /\ IsRows(callIn.args[1]))
        => /\ (\E i \in 1..Len(MenuRows) : Len(MenuRows[i].items) < 4)
                => Rejected
           /\ (Len(callIn.args) >= 4 /\ BadPositions = {})
                => /\ callRet.kind = "Ok"
                   /\ Len(callRet.ops) = 1
                   /\ callRet.ops[1].op = "popupmenu_show"
                   /\ LET menu == callRet.ops[1].params[1].items
                      IN  /\ Len(menu) = Len(MenuRows)
                          /\ \A i \in 1..Len(menu) :
                               /\ menu[i].word = MenuRows[i].items[1].s
                               /\ menu[i].kind = MenuRows[i].items[2].s
                               /\ menu[i].menu = MenuRows[i].items[3].s
                               /\ menu[i].info = MenuRows[i].items[4].s

\* the rows of the tabs argument, when it is an array
TabRows == callIn.args[2].items

HasKey(m, key) ==
    \E k \in Keys(m.items) : m.items[k].tag = "String" /\ m.items[k].s = key

\* C11: tabline_update with a row of the tabs argument that is a map without
\* the key "tab" returns a decode error and does not invoke the sink; it does
\* not crash, skip the row or give it a default identity.
C11_TablineMissingTab ==
    (Ran /\ callIn.method = "tabline_update" /\ Len(callIn.args) >= 2
         /\ callIn.args[2].tag = "Array"
         /\ \E i \in 1..Len(TabRows) :
                TabRows[i].tag = "Map" /\ ~HasKey(TabRows[i], "tab"))
        => Rejected

\* the typed parameter a well-formed wire value of the kind becomes
Coerced(v, kind) ==
    CASE kind = "any" -> Value("Tabpage", 0, "", FALSE, <<v>>)
      [] kind = "menu" ->
            Value("Vec", 0, "", FALSE,
                  [i \in 1..Len(v.items) |-> CompleteItem(v.items[i].items)])
      [] kind = "tabs" ->
            Value("Vec", 0, "", FALSE,
                  [i \in 1..Len(v.items) |->
                     LET attrs == to_attrs_map(v.items[i]).val
                         name == get(attrs, "name")
                     IN  Value("Tuple", 0, "", FALSE,
                               <<Value("Tabpage", 0, "", FALSE, <<get(attrs, "tab").val>>),
                                 IF name.kind = "Ok" /\ IsStr(name.val)
                                 THEN Typed("Some", name.val)
                                 ELSE Value("None", 0, "", FALSE, <<>>)>>)])
      [] kind = "mode_infos" ->
            Value("Vec", 0, "", FALSE,
                  [i \in 1..Len(v.items) |-> ModeInfo_new(v.items[i]).val])
      [] OTHER -> try_arg(v, kind).val

\* the methods whose arm takes no wire argument, and the fixed parameters of
\* the operation they stand for
ZeroArgMethods ==
    { "clear", "eol_clear", "mouse_on", "mouse_off", "busy_start", "busy_stop",
      "popupmenu_hide", "cmdline_block_hide" }

FixedParams(method) ==
    CASE method \in {"mouse_on", "busy_start"} -> <<Typed("bool", Boolean(TRUE))>>
      [] method \in {"mouse_off", "busy_stop"} -> <<Typed("bool", Boolean(FALSE))>>
      [] OTHER -> <<>>

\* C13: a recognized redraw method called with an argument list that matches
\* its kind sequence succeeds and has invoked exactly one operation of the
\* sink, the one of that method, once, with the coerced values in the
\* positional order of the wire arguments.
C13_WellTypedInvokesOnce ==
    (Ran /\ callIn.method \in RedrawMethods
         /\ Len(callIn.args) = Len(Kinds(callIn.method))
         /\ BadPositions = {})
        => /\ callRet.kind = "Ok"
           /\ Len(callRet.ops) = 1
           /\ callRet.ops[1].op = SinkOp(callIn.method)
           /\ callRet.ops[1].params =
                 IF callIn.method \in ZeroArgMethods
                 THEN FixedParams(callIn.method)
                 ELSE [i \in 1..Len(callIn.args) |->
                         Coerced(callIn.args[i], Kinds(callIn.method)[i])]

C13_Witness ==
    /\ Ran
    /\ callIn.method = "cmdline_special_char"
    /\ callIn.args = <<String("a"), Boolean(TRUE), Integer(1)>>
    /\ callRet.kind = "Ok"
    /\ callRet.ops[1].params[3].i = 1

\* C14: when a recognized redraw method succeeds, the repaint outcome call
\* returns is the one the operation of the sink returned, for highlight_set
\* and set_scroll_region as for every other method.
C14_ReturnsSinkOutcome ==
    (Ran /\ callIn.method \in RedrawMethods /\ callRet.kind = "Ok")
        => callRet.mode = callIn.out

\* C19: a method that takes no argument, called with any argument list,
\* succeeds and invokes its operation with its fixed parameters: on_mouse(true)
\* for mouse_on, on_mouse(false) for mouse_off, on_busy(true) for busy_start,
\* on_busy(false) for busy_stop, and the parameterless operation for clear,
\* eol_clear, popupmenu_hide and cmdline_block_hide.
C19_ZeroArgumentMethods ==
    (Ran /\ callIn.method \in ZeroArgMethods)
        => /\ callRet.kind = "Ok"
           /\ callRet.ops =
                 <<Invoke(CASE callIn.method = "clear" -> "on_clear"
                            [] callIn.method = "eol_clear" -> "on_eol_clear"
                            [] callIn.method \in {"mouse_on", "mouse_off"} -> "on_mouse"
                            [] callIn.method \in {"busy_start", "busy_stop"} -> "on_busy"
                            [] OTHER -> callIn.method,
                          FixedParams(callIn.method))>>

C19_Witness ==
    /\ Ran
    /\ callIn.method = "mouse_off"
    /\ callIn.args = <<Integer(1), Integer(2)>>
    /\ callRet.ops = <<Invoke("on_mouse", <<Typed("bool", Boolean(FALSE))>>)>>

(***************************************************************************)
(* Properties of the repaint aggregator.                                   *)
(***************************************************************************)
Folded == foldPos = Len(foldIn)

\* the orders the outcomes of foldIn can be processed in
Orders ==
    { [i \in 1..Len(foldIn) |-> foldIn[f[i]]] : f \in Permutations(1..Len(foldIn)) }

At(s, tag) == { i \in 1..Len(s) : s[i].tag = tag }

\* the result the rule is meant to give, read off the whole sequence
Reference(s) ==
    IF At(s, "Full") # {} THEN Full
    ELSE IF At(s, "Area") # {}
    THEN Area(Min({ s[i].top : i \in At(s, "Area") }),
              Max({ s[i].bot : i \in At(s, "Area") }),
              Min({ s[i].left : i \in At(s, "Area") }),
              Max({ s[i].right : i \in At(s, "Area") }))
    ELSE IF At(s, "Cursor") # {} THEN s[Max(At(s, "Cursor"))]
    ELSE Nothing

\* C6 as stated: every order of the same outcomes folds to the same
\* instruction, two Cursor outcomes with different positions included.
C6_FoldOrderIndependent ==
    Folded => \A p \in Orders : fold(p) = foldAcc

\* C6 as amended: every order of the same outcomes folds to an instruction of
\* the same kind, and to the same instruction unless that kind is Cursor; a
\* resulting Cursor has the position of the Cursor outcome that is last in
\* the order.
C6_FoldOrderIndependentUpToCursor ==
    Folded =>
        \A p \in Orders :
            /\ fold(p).tag = foldAcc.tag
            /\ fold(p).tag # "Cursor" => fold(p) = foldAcc
            /\ fold(p).tag = "Cursor" => fold(p) = p[Max(At(p, "Cursor"))]

C6_Witness ==
    /\ Folded
    /\ foldIn = <<Cursor(0, 1), Area(0, 1, 0, 1), Cursor(1, 0)>>
    /\ foldAcc = Area(0, 1, 0, 1)

\* C7: the fold of a sequence of repaint outcomes is Full if one of them is
\* Full, else the bounding rectangle of its Area outcomes if there is one,
\* else its last Cursor outcome if there is one, else Nothing; at every point
\* of the fold, for the outcomes combined so far.
C7_FoldIsReference ==
    /\ foldAcc = Reference(SubSeq(foldIn, 1, foldPos))
    /\ fold(SubSeq(foldIn, 1, foldPos)) = foldAcc

C7_Witness ==
    /\ Folded
    /\ foldIn = <<Area(2, 3, 2, 3), Cursor(0, 1), Area(0, 0, 1, 2)>>
    /\ foldAcc = Area(0, 3, 1, 3)

(***************************************************************************)
(* Properties of the processing of a batch.                                *)
(***************************************************************************)
\* the processing of the batch has ended
Ended == pc \in {"done", "crashed"}

WellFormed(c) ==
    \/ c.method \notin RedrawMethods
    \/ /\ Len(c.args) >= Len(Kinds(c.method))
       /\ BadPositionsOf(c.method, c.args) = {}

\* the sink operations of the well-formed calls among the first n of the batch
RECURSIVE Applied(_)
Applied(n) ==
    IF n = 0 THEN <<>>
    ELSE Applied(n - 1) \o
         (IF WellFormed(batch[n])
          THEN call(batch[n].method, batch[n].args, Nothing).ops
          ELSE <<>>)

\* C8: on_redraw is delivered exactly once for every batch, with the fold of
\* the batch's repaint outcomes, after every call of the batch has been
\* dispatched, and never between two calls.
C8_RedrawOncePerBatch ==
    /\ pc = "dispatching" => redraws = <<>>
    /\ Ended => /\ pos = Len(batch)
                /\ redraws = <<fold(modes)>>

\* C9: a malformed call of a batch is reported and aborts only itself: when
\* the processing of the batch has ended, every call has been dispatched, the
\* malformed ones are the ones reported, and the sink has been given all the
\* well-formed calls, in order.
C9_ErrorAbortsOnlyThatCall ==
    Ended => /\ pos = Len(batch)
             /\ { e[1] : e \in { errors[i] : i \in 1..Len(errors) } }
                    = { i \in 1..Len(batch) : ~WellFormed(batch[i]) }
             /\ sinkLog = Applied(Len(batch))

\* the sink operations of the first n calls of the batch, call after call
RECURSIVE Reached(_)
Reached(n) ==
    IF n = 0 THEN <<>>
    ELSE Reached(n - 1) \o call(batch[n].method, batch[n].args, Nothing).ops

\* the orders the repaint outcomes of the batch could have come in
Arrangements ==
    { [i \in 1..Len(modes) |-> modes[f[i]]] : f \in Permutations(1..Len(modes)) }

\* C18 as stated: the operations of the sink are invoked in the wire order of
\* the calls, one call's operation after the other's, and the instruction
\* on_redraw is given is the same in whatever order the repaint outcomes of
\* the batch are folded.
C18_WireOrder ==
    /\ sinkLog = Reached(pos)
    /\ pc = "done" => \A p \in Arrangements : fold(p) = redraws[1]

\* C18 as amended: the operations of the sink are invoked in the wire order
\* of the calls, and the instruction on_redraw is given has the same kind in
\* whatever order the outcomes are folded, and is the same instruction unless
\* that kind is Cursor; a Cursor instruction has the position of the Cursor
\* outcome that is last in the order.
C18_WireOrderFoldUpToCursor ==
    /\ sinkLog = Reached(pos)
    /\ pc = "done" =>
          \A p \in Arrangements :
              /\ fold(p).tag = redraws[1].tag
              /\ fold(p).tag # "Cursor" => fold(p) = redraws[1]
              /\ fold(p).tag = "Cursor" => fold(p) = p[Max(At(p, "Cursor"))]

C18_Witness ==
    /\ pc = "done"
    /\ Len(sinkLog) = 2
    /\ sinkLog[1].op = "on_cursor_goto"
    /\ sinkLog[2].op = "on_put"
    /\ modes = <<Cursor(0, 1), Cursor(1, 0)>>
    /\ redraws = <<Cursor(1, 0)>>

(***************************************************************************)
(* Properties of the command and request dispatchers.                      *)
(***************************************************************************)
\* C4: a command whose method is not Font, Clipboard or Option, whatever its
\* arguments, is answered with the error Unsupported event, performs no
\* operation and leaves the UI state as it was; call answers the same name,
\* when it does not know it either, with Ok(Nothing).
C4_UnsupportedEvent ==
    [][(evIn'.method \notin {"Font", "Clipboard", "Option", ""} /\ ~fault')
          => /\ evRet' = GuiRet("Err", "Unsupported event", <<>>)
             /\ ui' = ui
             /\ evIn'.method \notin RedrawMethods
                  => call(evIn'.method, evIn'.args, Full)
                         = Ret("Ok", Nothing, "", <<>>)]_vars

C4_Witness ==
    /\ evIn = [method |-> "Bogus", args |-> <<Integer(1), Integer(2)>>]
    /\ evRet.kind = "Err"
    /\ ui.font = "f"
    /\ ui.primary = Text("a\nb")

\* C5: while the request Clipboard Get waits for the clipboard text the UI
\* state is not borrowed, so no command the event loop runs meanwhile meets a
\* second exclusive borrow.
C5_BorrowReleasedBeforeWait ==
    /\ reqPc = "waiting" => ~uiBorrow
    /\ ~fault

C5_Witness ==
    /\ reqPc = "waiting"
    /\ reentered = 1
    /\ evIn.method = "Clipboard"
    /\ evRet.kind = "Ok"
    /\ ui.primary = Text("a\nb")

\* C12: the command and request dispatchers, given Font, Clipboard or Option
\* with an argument list of any length and any tags, end by returning an ok
\* or an error value; they never crash.
C12_GuiDispatchersNeverCrash ==
    /\ (evIn.method \in {"Font", "Clipboard", "Option"} /\ ~fault)
          => evRet.kind \in {"Ok", "Err"}
    /\ (reqIn.method \in {"Font", "Clipboard", "Option"} /\ ~fault)
          => reqPc # "crashed" /\ reqRet.kind \in {"Ok", "Err"}

\* the command names a sub-option, as a string
Names(cmd) == Len(cmd.args) >= 1 /\ IsStr(cmd.args[1])

\* C15: Option Popupmenu, Tabline or Cmdline without an editor session is
\* answered with an error and requests no option change; it is never answered
\* Ok.
C15_OptionWithoutSession ==
    (evIn.method = "Option" /\ Names(evIn) /\ ~session /\ ~fault
         /\ evIn.args[1].s \in {"Popupmenu", "Tabline", "Cmdline"})
        => evRet = GuiRet("Err", "Nvim not initialized", <<>>)

C15_Witness ==
    /\ ~session
    /\ evIn = [method |-> "Option", args |-> <<String("Tabline"), Integer(0)>>]
    /\ evRet.kind = "Err"

\* the text of the one of the two a selection stands for ("" when it has none)
Selected(sel) ==
    LET clip == IF sel = "*" THEN ui.primary ELSE ui.clipboard
    IN  IF clip.has THEN clip.text ELSE ""

\* the lines joined again with one newline between two of them
RECURSIVE Joined(_)
Joined(ls) ==
    IF Len(ls) = 1 THEN Chars(ls[1].s)
    ELSE Chars(ls[1].s) \o <<"\n">> \o Joined(Tail(ls))

\* the request Clipboard Get has been answered from the clipboard text
Got == reqPc = "done" /\ reqClip # "none"

\* C16: the answer of Clipboard Get is the list of lines of the selected
\* clipboard's text, split at every newline, in order: one more element than
\* the text has newlines, none holding a newline, giving the text back when
\* joined by newlines; one empty string for an empty or absent text; and
\* ["a", "b"] for "a\nb".
C16_ClipboardGetLines ==
    Got =>
        LET text == Selected(reqIn.args[2].s)
            lines == reqRet.val.items
        IN  /\ reqRet.kind = "Ok"
            /\ reqRet.val.tag = "Array"
            /\ Len(lines)
                  = Cardinality({ i \in 1..Len(Chars(text)) : Chars(text)[i] = "\n" }) + 1
            /\ \A i \in 1..Len(lines) :
                  /\ IsStr(lines[i])
                  /\ \A j \in 1..Len(Chars(lines[i].s)) : Chars(lines[i].s)[j] # "\n"
            /\ Joined(lines) = Chars(text)
            /\ text = "" => lines = <<String("")>>
            /\ text = "a\nb" => lines = <<String("a"), String("b")>>

C16_Witness ==
    /\ Got
    /\ reqIn.args = <<String("Get"), String("+")>>
    /\ ui.clipboard = Text("a\n")
    /\ reqRet = Ok(Array(<<String("a"), String("")>>))

\* C17: a command Clipboard whose sub-option is not Set, or Option whose
\* sub-option is not Popupmenu, Tabline or Cmdline, is logged and answered
\* Ok, and changes neither the font, the primary selection, the clipboard nor
\* an option of the editor.
C17_UnknownSubOptionIsLogged ==
    [][(/\ ~fault'
        /\ Names(evIn')
        /\ \/ evIn'.method = "Clipboard" /\ evIn'.args[1].s # "Set"
           \/ /\ evIn'.method = "Option"
              /\ evIn'.args[1].s \notin {"Popupmenu", "Tabline", "Cmdline"})
          => /\ evRet' = GuiRet("Ok", "", <<Effect("error!", evIn'.args[1].s, FALSE)>>)
             /\ ui' = ui]_vars

C17_Witness ==
    /\ evIn = [method |-> "Option", args |-> <<String("Cursor"), Integer(1)>>]
    /\ evRet.kind = "Ok"
    /\ session
    /\ ui.clipboard = Text("a\n")

\* C20: Clipboard Set writes the primary selection and leaves the clipboard
\* as it was when the selection is "*", and writes the clipboard and leaves
\* the primary selection as it was for any other selection; Clipboard Get is
\* answered from the one Set writes for the same selection.
C20_SelectionRouting ==
    [][/\ (/\ ~fault'
            /\ evIn'.method = "Clipboard"
            /\ Len(evIn'.args) >= 3
            /\ evIn'.args[1] = String("Set")
            /\ IsStr(evIn'.args[2])
            /\ IsStr(evIn'.args[3]))
           => IF evIn'.args[2].s = "*"
              THEN /\ ui'.primary = Text(evIn'.args[3].s)
                   /\ ui'.clipboard = ui.clipboard
              ELSE /\ ui'.clipboard = Text(evIn'.args[3].s)
                   /\ ui'.primary = ui.primary
       /\ (reqPc = "waiting" /\ reqPc' = "done")
           => Joined(reqRet'.val.items) = Chars(Selected(reqIn.args[2].s))]_vars

C20_Witness ==
    /\ Got
    /\ reqIn.args = <<String("Get"), String("*")>>
    /\ ui.primary = Text("a\nb")
    /\ ui.clipboard = Text("a\n")
    /\ reqRet = Ok(Array(<<String("a"), String("b")>>))

====
